---- MODULE Spec2Model ----
(***************************************************************************)
(* A model of the pge physics core (src/src/physics.h, src/physics.h):     *)
(* vector and quaternion algebra, rigid body integration, the chained     *)
(* hash grid, the table-of-entries grid, the joint solver, the contact    *)
(* resolver and the scene step.                                           *)
(*                                                                         *)
(* Numbers.  A C float is modelled as a binary fixed-point number with    *)
(* FracBits fractional bits: the integer v stands for v / Scale.  Every   *)
(* operation rounds to nearest (ties away from zero), a result beyond     *)
(* FMax becomes an infinity, and the IEEE special values are kept:        *)
(* PosInf, NegInf and NaN behave as in IEEE 754 (x/0 is an infinity, 0/0, *)
(* 0*inf and inf-inf are NaN, NaN compares unequal to everything).        *)
(***************************************************************************)
EXTENDS Integers, Sequences, FiniteSets, TLC

(* ------------------------------ bounds -------------------------------- *)

\* fractional bits of the number format
FracBits == 10

Scale == 2 ^ FracBits
\* largest finite magnitude of the number format
FMax == 64 * Scale
PosInf == FMax + 1
NegInf == 0 - (FMax + 1)
NaN == FMax + 2

(* --------------------------- float arithmetic -------------------------- *)

IsNaN(a) == a = NaN
IsInf(a) == a = PosInf \/ a = NegInf
IsFinite(a) == a >= 0 - FMax /\ a <= FMax

Abs(a) == IF a < 0 THEN 0 - a ELSE a
Sgn(a) == IF a < 0 THEN 0 - 1 ELSE IF a > 0 THEN 1 ELSE 0

\* a finite result, or the infinity of its sign when it is out of range
Sat(v) == IF v > FMax THEN PosInf ELSE IF v < 0 - FMax THEN NegInf ELSE v

\* a float literal num/den
F(num, den) == (num * Scale) \div den

\* C: -a
FNeg(a) == IF IsNaN(a) THEN NaN ELSE 0 - a

\* C: a + b
FAdd(a, b) ==
    IF IsNaN(a) \/ IsNaN(b) THEN NaN
    ELSE IF IsInf(a) /\ IsInf(b) THEN (IF a = b THEN a ELSE NaN)
    ELSE IF IsInf(a) THEN a
    ELSE IF IsInf(b) THEN b
    ELSE Sat(a + b)

\* C: a - b
FSub(a, b) == FAdd(a, FNeg(b))

\* |a| * |b| / Scale rounded to nearest, for finite a and b
MulMag(a, b) ==
    LET ah == Abs(a) \div Scale
        al == Abs(a) % Scale
    IN  ah * Abs(b) + ((al * Abs(b) + (Scale \div 2)) \div Scale)

\* C: a * b
FMul(a, b) ==
    IF IsNaN(a) \/ IsNaN(b) THEN NaN
    ELSE IF IsInf(a) \/ IsInf(b)
         THEN (IF a = 0 \/ b = 0 THEN NaN
               ELSE IF Sgn(a) * Sgn(b) > 0 THEN PosInf ELSE NegInf)
    ELSE Sat(Sgn(a) * Sgn(b) * MulMag(a, b))

\* C: a / b
FDiv(a, b) ==
    IF IsNaN(a) \/ IsNaN(b) THEN NaN
    ELSE IF IsInf(a)
         THEN (IF IsInf(b) THEN NaN
               ELSE IF (a > 0) = (b >= 0) THEN PosInf ELSE NegInf)
    ELSE IF IsInf(b) THEN 0
    ELSE IF b = 0
         THEN (IF a = 0 THEN NaN ELSE IF a > 0 THEN PosInf ELSE NegInf)
    ELSE Sat(Sgn(a) * Sgn(b)
             * ((2 * Abs(a) * Scale + Abs(b)) \div (2 * Abs(b))))

\* the largest r in lo..hi with r * r <= n
RECURSIVE ISqrt(_, _, _)
ISqrt(n, lo, hi) ==
    IF lo >= hi THEN lo
    ELSE LET mid == (lo + hi + 1) \div 2
         IN  IF mid * mid <= n THEN ISqrt(n, mid, hi) ELSE ISqrt(n, lo, mid - 1)

\* C: sqrtf(a)
FSqrt(a) ==
    IF IsNaN(a) \/ a < 0 THEN NaN
    ELSE IF a = PosInf THEN PosInf
    ELSE LET n == a * Scale
             r == ISqrt(n, 0, 8 * Scale)
         IN  IF n - r * r <= r THEN r ELSE r + 1

\* C: a == b on floats
FEq(a, b) == ~IsNaN(a) /\ ~IsNaN(b) /\ a = b

(* ------------------------------- Vec3 ---------------------------------- *)

pge_vec3_new(x, y, z) == [x |-> x, y |-> y, z |-> z]

Vec3_add(a, b) == [x |-> FAdd(a.x, b.x), y |-> FAdd(a.y, b.y), z |-> FAdd(a.z, b.z)]

Vec3_sub(a, b) == [x |-> FSub(a.x, b.x), y |-> FSub(a.y, b.y), z |-> FSub(a.z, b.z)]

Vec3_scale(v, s) == [x |-> FMul(v.x, s), y |-> FMul(v.y, s), z |-> FMul(v.z, s)]

Vec3_dot(a, b) == FAdd(FAdd(FMul(a.x, b.x), FMul(a.y, b.y)), FMul(a.z, b.z))

Vec3_length(v) == FSqrt(Vec3_dot(v, v))

Vec3_normalized(v) ==
    LET len == Vec3_length(v)
    IN  IF FEq(len, 0) THEN v ELSE Vec3_scale(v, FDiv(Scale, len))

(* ----------------------------- Quaternion ------------------------------ *)

Quaternion_identity == [w |-> Scale, x |-> 0, y |-> 0, z |-> 0]

Quaternion_scale(q, s) ==
    [w |-> FMul(q.w, s), x |-> FMul(q.x, s), y |-> FMul(q.y, s), z |-> FMul(q.z, s)]

Quaternion_mag(q) ==
    FSqrt(FAdd(FAdd(FAdd(FMul(q.w, q.w), FMul(q.x, q.x)), FMul(q.y, q.y)),
               FMul(q.z, q.z)))

Quaternion_normalized(q) ==
    LET m == Quaternion_mag(q)
    IN  [w |-> FDiv(q.w, m), x |-> FDiv(q.x, m), y |-> FDiv(q.y, m), z |-> FDiv(q.z, m)]

Quaternion_mul(a, b) ==
    [w |-> FSub(FSub(FSub(FMul(a.w, b.w), FMul(a.x, b.x)), FMul(a.y, b.y)), FMul(a.z, b.z)),
     x |-> FSub(FAdd(FAdd(FMul(a.w, b.x), FMul(a.x, b.w)), FMul(a.y, b.z)), FMul(a.z, b.y)),
     y |-> FAdd(FAdd(FSub(FMul(a.w, b.y), FMul(a.x, b.z)), FMul(a.y, b.w)), FMul(a.z, b.x)),
     z |-> FAdd(FSub(FAdd(FMul(a.w, b.z), FMul(a.x, b.y)), FMul(a.y, b.x)), FMul(a.z, b.w))]

pge_quat_integrate(q, av, dt) ==
    LET omega == [w |-> 0, x |-> av.x, y |-> av.y, z |-> av.z]
        qdot == Quaternion_scale(Quaternion_mul(omega, q), Scale \div 2)
        r == [w |-> FAdd(q.w, FMul(qdot.w, dt)), x |-> FAdd(q.x, FMul(qdot.x, dt)),
              y |-> FAdd(q.y, FMul(qdot.y, dt)), z |-> FAdd(q.z, FMul(qdot.z, dt))]
    IN  Quaternion_normalized(r)

(* ------------------------------ RigidBody ------------------------------ *)

V(x, y, z) == pge_vec3_new(F(x, 1), F(y, 1), F(z, 1))
Zero3 == V(0, 0, 0)

\* struct RigidBody; the collision shape is carried and never read
RigidBody(pos, vel, mass, avel) ==
    [position |-> pos, velocity |-> vel, mass |-> mass, restitution |-> Scale \div 2,
     rot |-> Quaternion_identity, avel |-> avel, inertia |-> Scale,
     shape |-> [type |-> 0]]

\* RigidBody_integrate that integrates the orientation as well
RigidBody_integrate_rot(body, dt) ==
    [body EXCEPT !.position = Vec3_add(body.position, Vec3_scale(body.velocity, dt)),
                 !.rot = pge_quat_integrate(body.rot, body.avel, dt)]

RigidBody_integrate(body, dt) ==
    [body EXCEPT !.position = Vec3_add(body.position, Vec3_scale(body.velocity, dt))]

(* -------------------------------- Joint -------------------------------- *)

\* struct Joint; bodyA and bodyB are references into the body store
Joint(a, b, anchorA, anchorB, distance) ==
    [bodyA |-> a, bodyB |-> b, anchorA |-> anchorA, anchorB |-> anchorB,
     distance |-> distance]

\* the impulse of Joint_solve, from the bodies bs and the joint j
Joint_impulse(bs, j) ==
    LET rA == j.anchorA
        rB == j.anchorB
        pA == Vec3_add(bs[j.bodyA].position, rA)
        pB == Vec3_add(bs[j.bodyB].position, rB)
        diff == Vec3_sub(pB, pA)
        len == Vec3_length(diff)
        n == IF FEq(len, 0) THEN diff ELSE Vec3_scale(diff, FDiv(Scale, len))
        c == FSub(len, j.distance)
        invMass == FAdd(FDiv(Scale, bs[j.bodyA].mass), FDiv(Scale, bs[j.bodyB].mass))
    IN  Vec3_scale(n, FDiv(FNeg(c), invMass))

\* the write to bodyA's velocity
Joint_applyA(bs, a, impulse) ==
    [bs EXCEPT ![a].velocity = Vec3_sub(bs[a].velocity,
                                        Vec3_scale(impulse, FDiv(Scale, bs[a].mass)))]

\* Joint_applyB with the impulse subtracted, as for bodyA
Joint_applyB_sub(bs, b, impulse) ==
    [bs EXCEPT ![b].velocity = Vec3_sub(bs[b].velocity,
                                        Vec3_scale(impulse, FDiv(Scale, bs[b].mass)))]

\* the write to bodyB's velocity
Joint_applyB(bs, b, impulse) ==
    [bs EXCEPT ![b].velocity = Vec3_add(bs[b].velocity,
                                        Vec3_scale(impulse, FDiv(Scale, bs[b].mass)))]

\* the body store after Joint_solve(&j)
Joint_solve(bs, j) ==
    LET impulse == Joint_impulse(bs, j)
    IN  Joint_applyB(Joint_applyA(bs, j.bodyA, impulse), j.bodyB, impulse)

\* the divisors Joint_solve divides by on the bodies bs
Joint_divisors(bs, j) ==
    LET diff == Vec3_sub(Vec3_add(bs[j.bodyB].position, j.anchorB),
                         Vec3_add(bs[j.bodyA].position, j.anchorA))
        len == Vec3_length(diff)
        invMass == FAdd(FDiv(Scale, bs[j.bodyA].mass), FDiv(Scale, bs[j.bodyB].mass))
    IN  (IF FEq(len, 0) THEN {} ELSE {len})
        \cup {bs[j.bodyA].mass, bs[j.bodyB].mass, invMass}

(* --------------------------- machine integers --------------------------- *)

\* the multipliers of hash and hashCoords
P1 == 73856093
P2 == 19349663
P3 == 83492791

\* sizeof(RigidBody *)
PtrSize == 8

Limb == 2 ^ 16

\* bitwise exclusive or of two numbers of the given number of bits
RECURSIVE XorBits(_, _, _)
XorBits(a, b, bits) ==
    IF bits = 0 THEN 0
    ELSE (((a % 2) + (b % 2)) % 2) + 2 * XorBits(a \div 2, b \div 2, bits - 1)

\* x * p modulo 2^(16 * n) as n 16-bit limbs, lowest first (two's complement
\* for a negative x): the product of an int converted to an n-limb unsigned
MulLimbs(x, p, n) ==
    LET lo == x * (p % Limb)
        hi == x * (p \div Limb) + (lo \div Limb)
        l2 == hi \div Limb
    IN  SubSeq(<<lo % Limb, hi % Limb, l2 % Limb, (l2 \div Limb) % Limb>>, 1, n)

Byte == 2 ^ 8

\* the exclusive or of every two bytes, computed once
XorByte == [a \in 0..(Byte - 1) |-> [b \in 0..(Byte - 1) |-> XorBits(a, b, 8)]]

\* bitwise exclusive or of two limbs, byte by byte
XorLimb(a, b) == XorByte[a % Byte][b % Byte] + Byte * XorByte[a \div Byte][b \div Byte]

\* bitwise exclusive or, limb by limb
RECURSIVE XorLimbs(_, _)
XorLimbs(a, b) ==
    IF a = <<>> THEN <<>>
    ELSE <<XorLimb(Head(a), Head(b))>> \o XorLimbs(Tail(a), Tail(b))

\* the value of limbs modulo m
RECURSIVE LimbsMod(_, _, _)
LimbsMod(a, k, m) ==
    IF k = 0 THEN 0 ELSE (LimbsMod(a, k - 1, m) + (a[k] % m) * ((Limb ^ (k - 1)) % m)) % m

\* C: (int)a for a finite float: truncation towards zero
FToInt(a) == Sgn(a) * (Abs(a) \div Scale)

\* C: floorf(a) as an int, for a finite float
FFloor(a) == a \div Scale

IsFinite3(v) == IsFinite(v.x) /\ IsFinite(v.y) /\ IsFinite(v.z)

(* --------------------------- the chained grid --------------------------- *)

\* the value of a field that was never assigned; the code never reads one
Indeterminate == 0 - 1000000

\* hash(x, y, z, size): 32-bit unsigned arithmetic
hash(x, y, z, size) ==
    LimbsMod(XorLimbs(XorLimbs(MulLimbs(x, P1, 2), MulLimbs(y, P2, 2)), MulLimbs(z, P3, 2)),
             2, size)

\* pge_create_grid(size): the table of size null pointers (0 is NULL)
pge_create_grid(size) ==
    [size |-> size, table |-> [i \in 0..(size - 1) |-> 0], cells |-> <<>>]

\* pge_create_cell(x, y, z): z is not assigned; bodies is the number
\* sizeof(RigidBody *) * 4 cast to a pointer, no memory is allocated
pge_create_cell(x, y, z) ==
    [x |-> x, y |-> y, z |-> Indeterminate, count |-> 0, capacity |-> 4,
     bodies |-> PtrSize * 4, next |-> 0]

\* the first cell at or behind c whose x and y match, or 0
RECURSIVE FindCell(_, _, _, _)
FindCell(g, c, x, y) ==
    IF c = 0 THEN 0
    ELSE IF g.cells[c].x = x /\ g.cells[c].y = y THEN c
    ELSE FindCell(g, g.cells[c].next, x, y)

\* pge_get_cell(grid, x, y, z): the grid afterwards and the cell returned
pge_get_cell(g, x, y, z) ==
    LET index == hash(x, y, z, g.size)
        found == FindCell(g, g.table[index], x, y)
        newCell == [pge_create_cell(x, y, z) EXCEPT !.next = g.table[index]]
        id == Len(g.cells) + 1
    IN  IF found # 0 THEN [grid |-> g, cell |-> found]
        ELSE [grid |-> [g EXCEPT !.cells = Append(g.cells, newCell), !.table[index] = id],
              cell |-> id]

\* the cell of a body's position: (int) of each coordinate
CellOf(pos) == [x |-> FToInt(pos.x), y |-> FToInt(pos.y), z |-> FToInt(pos.z)]

\* the word of memory that cell->bodies[i] addresses
BodySlot(cell, i) == (cell.bodies \div PtrSize) + i

\* pge_grid_insert(grid, body) up to the store into cell->bodies[...]:
\* the grid afterwards, the cell, and the word the store writes
pge_grid_insert(g, body, pos) ==
    LET at == CellOf(pos)
        got == pge_get_cell(g, at.x, at.y, at.z)
        cell == got.grid.cells[got.cell]
        grown == IF cell.count = cell.capacity
                 THEN [cell EXCEPT !.capacity = cell.capacity * 2,
                                   !.bodies = PtrSize * (cell.capacity * 2)]
                 ELSE cell
    IN  [grid |-> [got.grid EXCEPT !.cells[got.cell] = [grown EXCEPT !.count = grown.count + 1]],
         cell |-> got.cell,
         word |-> BodySlot(grown, grown.count),
         at |-> at]

\* the occupant cell->bodies[i], or 0 when that word was never written
Occupant(m, cell, i) ==
    IF BodySlot(cell, i) \in DOMAIN m THEN m[BodySlot(cell, i)] ELSE 0

(* ---------------------- the table-of-entries grid ----------------------- *)

\* hashCoords(x, y, z): 64-bit size_t arithmetic, as four limbs
hashCoords(x, y, z) ==
    XorLimbs(XorLimbs(MulLimbs(x, P1, 4), MulLimbs(y, P2, 4)), MulLimbs(z, P3, 4))

\* cellCoords(grid, pos, &cx, &cy, &cz)
cellCoords(g, pos) ==
    [x |-> FFloor(FDiv(pos.x, g.cellSize)),
     y |-> FFloor(FDiv(pos.y, g.cellSize)),
     z |-> FFloor(FDiv(pos.z, g.cellSize))]

\* the grid after a successful SpatialGrid_init(grid, cellSize)
SpatialGrid_init(cellSize) ==
    [cellSize |-> cellSize, entries |-> <<>>, count |-> 0, capacity |-> 16]

\* struct GridEntry: bodies holds the count references stored; null says
\* that the bodies pointer is NULL
GridEntry(key, bodies, capacity, null) ==
    [key |-> key, bodies |-> bodies, count |-> Len(bodies), capacity |-> capacity,
     null |-> null]

\* the first index from i on whose entry has the key, or 0
RECURSIVE FindEntry(_, _, _)
FindEntry(g, key, i) ==
    IF i > g.count THEN 0
    ELSE IF g.entries[i].key = key THEN i
    ELSE FindEntry(g, key, i + 1)

\* SpatialGrid_queryCell(grid, cx, cy, cz): the entry's index, 0 for NULL
SpatialGrid_queryCell(g, cx, cy, cz) == FindEntry(g, hashCoords(cx, cy, cz), 1)

\* SpatialGrid_insert(grid, body) for a body at pos; the failK-th
\* allocation of the call returns NULL (0: none does).  The grid
\* afterwards, the value returned, the entry written, whether an allocation
\* returned NULL, and the fault
SpatialGrid_insert(g, body, pos, failK) ==
    LET at == cellCoords(g, pos)
        key == hashCoords(at.x, at.y, at.z)
        i == FindEntry(g, key, 1)
        e == g.entries[i]
        full == g.count = g.capacity
        mallocs == IF full THEN 2 ELSE 1
        same == [grid |-> g, ret |-> 0 - 1, entry |-> 0, at |-> at, failed |-> FALSE,
                 fault |-> "none"]
        nomem == [same EXCEPT !.failed = TRUE]
    IN  IF i # 0
        THEN IF e.count = e.capacity
             THEN IF failK = 1 THEN nomem
                  ELSE [same EXCEPT
                          !.grid = [g EXCEPT !.entries[i] =
                                       GridEntry(key, Append(e.bodies, body),
                                                 e.capacity * 2, FALSE)],
                          !.ret = 0, !.entry = i]
             ELSE IF e.null THEN [same EXCEPT !.fault = "segv"]
             ELSE [same EXCEPT
                     !.grid = [g EXCEPT !.entries[i] =
                                  GridEntry(key, Append(e.bodies, body), e.capacity, FALSE)],
                     !.ret = 0, !.entry = i]
        ELSE IF full /\ failK = 1 THEN nomem
        ELSE LET cap == IF full THEN g.capacity * 2 ELSE g.capacity
                 failed == failK = mallocs
                 entry == IF failed THEN GridEntry(key, <<>>, 4, TRUE)
                          ELSE GridEntry(key, <<body>>, 4, FALSE)
             IN  [same EXCEPT
                     !.grid = [g EXCEPT !.entries = Append(g.entries, entry),
                                        !.count = g.count + 1, !.capacity = cap],
                     !.ret = IF failed THEN 0 - 1 ELSE 0,
                     !.failed = failed,
                     !.entry = IF failed THEN 0 ELSE g.count + 1]

\* QueryResult_init(qr): the malloc is attempt 1 of the call
QueryResult_init(failK) ==
    [bodies |-> <<>>, count |-> 0, capacity |-> 8, null |-> failK = 1,
     attempts |-> 1, dropped |-> 0, fault |-> "none"]

\* QueryResult_append(qr, body); attempts counts the call's allocations,
\* dropped the appends that returned -1
QueryResult_append(qr, body, failK) ==
    LET grow == qr.count = qr.capacity
        n == qr.attempts + 1
        q1 == IF grow THEN [qr EXCEPT !.attempts = n] ELSE qr
    IN  IF grow /\ failK = n THEN [q1 EXCEPT !.dropped = qr.dropped + 1]
        ELSE IF qr.null THEN [q1 EXCEPT !.fault = "segv"]
        ELSE [q1 EXCEPT !.bodies = Append(qr.bodies, body),
                        !.count = qr.count + 1,
                        !.capacity = IF grow THEN qr.capacity * 2 ELSE qr.capacity]

\* the k-th cell the three nested loops visit around the cell (cx, cy, cz),
\* counting from 0: x is the outer loop, z the inner one
NearbyCell(cx, cy, cz, k) ==
    [x |-> cx - 1 + (k \div 9), y |-> cy - 1 + ((k \div 3) % 3), z |-> cz - 1 + (k % 3)]

\* the references the loops pass to QueryResult_append, in order, from the
\* k-th cell on
RECURSIVE NearbyRefs(_, _, _, _, _, _)
NearbyRefs(g, cx, cy, cz, k, body) ==
    IF k = 27 THEN <<>>
    ELSE LET n == NearbyCell(cx, cy, cz, k)
             i == SpatialGrid_queryCell(g, n.x, n.y, n.z)
             found == IF i = 0 THEN <<>>
                      ELSE SelectSeq(g.entries[i].bodies, LAMBDA r : r # body)
         IN  found \o NearbyRefs(g, cx, cy, cz, k + 1, body)

\* the appends of refs to qr, until a fault
RECURSIVE AppendAll(_, _, _)
AppendAll(qr, refs, failK) ==
    IF refs = <<>> \/ qr.fault # "none" THEN qr
    ELSE AppendAll(QueryResult_append(qr, refs[1], failK), Tail(refs), failK)

(* ------------------------------- Scene ---------------------------------- *)

\* scene_update's loop body with the position integrated before the velocity
scene_update_body_stale(body, g, dt) ==
    LET b1 == RigidBody_integrate(body, dt)
        b2 == [b1 EXCEPT !.velocity = Vec3_add(body.velocity, Vec3_scale(g, dt))]
    IN  [b2 EXCEPT !.rot = pge_quat_integrate(b2.rot, b2.avel, dt)]

\* one iteration of scene_update's loop
scene_update_body(body, g, dt) ==
    LET b1 == [body EXCEPT !.velocity = Vec3_add(body.velocity, Vec3_scale(g, dt))]
        b2 == RigidBody_integrate(b1, dt)
    IN  [b2 EXCEPT !.rot = pge_quat_integrate(b2.rot, b2.avel, dt)]

\* the body store after scene_update(scene, dt)
scene_update(bs, g, dt) == [i \in DOMAIN bs |-> scene_update_body(bs[i], g, dt)]

\* the static test never taken
Contact_static_never(bs, a, b) == FALSE

\* the test that skips a pair of static bodies
Contact_static(bs, a, b) == FEq(bs[a].mass, 0) /\ FEq(bs[b].mass, 0)

\* the body of scene_detect_collisions' inner loop for bodyA = a, bodyB = b
Contact_resolve(bs, a, b) ==
    IF Contact_static(bs, a, b) THEN bs
    ELSE LET diff == Vec3_sub(bs[b].position, bs[a].position)
             len == Vec3_length(diff)
         IN  IF FEq(len, 0) THEN bs
             ELSE LET n == Vec3_scale(diff, FDiv(Scale, len))
                      c == FSub(len, Scale)
                      invMass == FAdd(FDiv(Scale, bs[a].mass), FDiv(Scale, bs[b].mass))
                      impulse == Vec3_scale(n, FDiv(FNeg(c), invMass))
                      bs1 == [bs EXCEPT ![a].velocity =
                                 Vec3_sub(bs[a].velocity,
                                          Vec3_scale(impulse, FDiv(Scale, bs[a].mass)))]
                  IN  [bs1 EXCEPT ![b].velocity =
                                 Vec3_add(bs1[b].velocity,
                                          Vec3_scale(impulse, FDiv(Scale, bs1[b].mass)))]

\* the index pairs (i, j) of the two inner loops, in order, for a count of n
RECURSIVE PairSeq(_, _, _)
PairSeq(i, j, n) ==
    IF i >= n THEN <<>>
    ELSE IF j >= n THEN PairSeq(i + 1, i + 2, n)
    ELSE <<<<i, j>>>> \o PairSeq(i, j + 1, n)

\* the inner loops over one cell; r holds the bodies, the pairs met so far
\* and the fault.  A word of cell->bodies that was never written holds an
\* indeterminate pointer: its use is undefined
RECURSIVE ResolveCell(_, _, _, _, _)
ResolveCell(r, g, m, c, pairs) ==
    IF pairs = <<>> THEN r
    ELSE LET i == pairs[1][1]
             j == pairs[1][2]
             a == Occupant(m, g.cells[c], i)
             b == Occupant(m, g.cells[c], j)
             post == Contact_resolve(r.bodies, a, b)
         IN  IF a = 0 \/ b = 0 THEN [r EXCEPT !.fault = "undefined"]
             ELSE ResolveCell([bodies |-> post,
                               log |-> Append(r.log, [cell |-> c, i |-> i, j |-> j,
                                                      a |-> a, b |-> b,
                                                      pre |-> r.bodies, post |-> post]),
                               fault |-> "none"],
                              g, m, c, Tail(pairs))

\* the outer loop from table slot i on.  A null table slot is dereferenced
\* (cell->count): the process ends with a segmentation fault
RECURSIVE DetectFrom(_, _, _, _)
DetectFrom(r, g, m, i) ==
    IF i >= g.size THEN r
    ELSE LET c == g.table[i]
         IN  IF c = 0 THEN [r EXCEPT !.fault = "segv"]
             ELSE IF g.cells[c].count < 2 THEN DetectFrom(r, g, m, i + 1)
             ELSE LET r2 == ResolveCell(r, g, m, c, PairSeq(0, 1, g.cells[c].count))
                  IN  IF r2.fault # "none" THEN r2 ELSE DetectFrom(r2, g, m, i + 1)

\* scene_detect_collisions(scene): the bodies afterwards, the pairs met, the fault
scene_detect_collisions(bs, g, m) ==
    DetectFrom([bodies |-> bs, log |-> <<>>, fault |-> "none"], g, m, 0)

(* ------------------------------- state --------------------------------- *)

VARIABLES
    bodies,   \* the body store: the RigidBody objects the pointers refer to
    gravity,  \* scene->gravity
    joint,    \* the Joint object
    grid,     \* scene->grid: size, table and the Cell objects
    mem,      \* the words of memory that the cells' bodies pointers address
    sgrid,    \* the SpatialGrid object (table of entries)
    qres,     \* the QueryResult of the latest SpatialGrid_queryNearby
    fault,    \* "none", or how the process ended
    last,     \* the latest call: its name, arguments, return value, the bodies before it
    inserted, \* the insertions made: body, position, cell coordinates, cell
    steps     \* number of calls made so far that write to the program's objects

vars == <<bodies, gravity, joint, grid, mem, sgrid, qres, fault, last, inserted, steps>>

\* the record of a call
Call(op, pre, arg, ret, log) ==
    [op |-> op, pre |-> pre, arg |-> arg, ret |-> ret, log |-> log]

NoCall == Call("none", <<>>, 0, 0, <<>>)

(* ------------------- the scene with the chained grid -------------------- *)

\* number of calls in a run of the scene
MaxCalls == 4
\* largest table size of the grid
MaxGridSize == 2

NoJoint == Joint(1, 1, Zero3, Zero3, 0)
NoSGrid == [cellSize |-> Scale, entries |-> <<>>, count |-> 0, capacity |-> 0]

H == Scale \div 2
SceneDt == {Scale, H}
ScenePos2 == {pge_vec3_new(H, 0, 0), pge_vec3_new(0 - H, 0, 0), V(0, 0, 2), Zero3}
ScenePos3 == {pge_vec3_new(Scale + H, 0, 0), pge_vec3_new(H, H, 0)}

\* what the joint solver's run does not use
NoGrid ==
    /\ grid = pge_create_grid(0)
    /\ mem = <<>>
    /\ inserted = <<>>

\* what only the table-of-entries grid uses
NoEntries ==
    /\ sgrid = NoSGrid
    /\ qres = <<>>

\* a scene of two bodies under gravity, its grid created and empty
InitScene ==
    /\ \E m1 \in {0, Scale}, v1 \in {Zero3, V(1, 0, 0)},
          p2 \in {pge_vec3_new(H, 0, 0), V(0, 0, 2)}, m2 \in {0, Scale} :
          bodies = <<RigidBody(Zero3, v1, m1, V(0, 1, 0)),
                     RigidBody(p2, Zero3, m2, Zero3)>>
    /\ gravity = V(0, 0 - 1, 0)
    /\ \E size \in 1..MaxGridSize : grid = pge_create_grid(size)
    /\ mem = <<>>
    /\ inserted = <<>>
    /\ joint = NoJoint
    /\ NoEntries
    /\ fault = "none"
    /\ last = NoCall
    /\ steps = 0

\* three bodies that do not move, and an empty grid
InitGrid ==
    /\ \E m1 \in {0, Scale}, p2 \in ScenePos2, m2 \in {0, Scale}, p3 \in ScenePos3 :
          bodies = <<RigidBody(Zero3, V(1, 0, 0), m1, Zero3),
                     RigidBody(p2, Zero3, m2, Zero3),
                     RigidBody(p3, V(0, 1, 0), Scale, Zero3)>>
    /\ gravity = Zero3
    /\ \E size \in 1..MaxGridSize : grid = pge_create_grid(size)
    /\ mem = <<>>
    /\ inserted = <<>>
    /\ joint = NoJoint
    /\ NoEntries
    /\ fault = "none"
    /\ last = NoCall
    /\ steps = 0

\* scene_update(&scene, dt)
SceneUpdate ==
    /\ fault = "none"
    /\ steps < MaxCalls
    /\ \E dt \in SceneDt :
          /\ bodies' = scene_update(bodies, gravity, dt)
          /\ last' = Call("scene_update", bodies, dt, 0, <<>>)
    /\ steps' = steps + 1
    /\ UNCHANGED <<gravity, joint, grid, mem, sgrid, qres, fault, inserted>>

\* pge_grid_insert(&scene.grid, &scene.bodies[b]).  The store goes through a
\* pointer that is a small number, not an allocation: it faults, or lands in
\* the low memory that every cell of the same capacity addresses.  The
\* conversion of a non-finite coordinate to int is undefined
GridInsert ==
    /\ fault = "none"
    /\ steps < MaxCalls
    /\ \E b \in DOMAIN bodies :
          /\ last' = Call("pge_grid_insert", bodies, b, 0, <<>>)
          /\ IF ~IsFinite3(bodies[b].position)
             THEN fault' = "undefined" /\ UNCHANGED <<grid, mem, inserted>>
             ELSE \E r \in {pge_grid_insert(grid, b, bodies[b].position)} :
                     /\ grid' = r.grid
                     /\ \/ /\ mem' = (r.word :> b) @@ mem
                           /\ inserted' = Append(inserted,
                                  [body |-> b, position |-> bodies[b].position,
                                   at |-> r.at, cell |-> r.cell])
                           /\ fault' = "none"
                        \/ /\ fault' = "segv"
                           /\ UNCHANGED <<mem, inserted>>
    /\ steps' = steps + 1
    /\ UNCHANGED <<bodies, gravity, joint, sgrid, qres>>

\* scene_detect_collisions(&scene)
DetectCollisions ==
    /\ fault = "none"
    /\ steps < MaxCalls
    /\ \E r \in {scene_detect_collisions(bodies, grid, mem)} :
          /\ bodies' = r.bodies
          /\ fault' = r.fault
          /\ last' = Call("scene_detect_collisions", bodies, 0, 0, r.log)
    /\ steps' = steps + 1
    /\ UNCHANGED <<gravity, joint, grid, mem, sgrid, qres, inserted>>

NextScene == SceneUpdate \/ GridInsert \/ DetectCollisions

\* frames of a scene: integration, grid population and contact resolution
SpecScene == InitScene /\ [][NextScene]_vars

NextGrid == GridInsert \/ DetectCollisions

\* the broad phase alone: grid population and contact resolution
SpecGrid == InitGrid /\ [][NextGrid]_vars

(* ---------------------- the table-of-entries grid ----------------------- *)

\* number of bodies the run inserts, one after the other
MaxEntryBodies == 10

EntryBase == {pge_vec3_new(H, H, H), pge_vec3_new(0 - H, 0 - H, 3 * H)}
EntryStride == {Zero3, pge_vec3_new(H \div 2, 0, 0)}
EntryCellSize == {Scale, 2 * Scale}
\* which allocation of a call returns NULL; 0 for none
AllocFail == 0..2

\* bodies laid out from a base position at a fixed stride, the grid
\* initialised and empty
InitEntries ==
    /\ \E base \in EntryBase, d \in EntryStride :
          bodies = [i \in 1..MaxEntryBodies |->
                       RigidBody([x |-> base.x + (i - 1) * d.x,
                                  y |-> base.y + (i - 1) * d.y,
                                  z |-> base.z + (i - 1) * d.z], Zero3, Scale, Zero3)]
    /\ \E cs \in EntryCellSize : sgrid = SpatialGrid_init(cs)
    /\ qres = <<>>
    /\ gravity = Zero3
    /\ joint = NoJoint
    /\ NoGrid
    /\ fault = "none"
    /\ last = NoCall
    /\ steps = 0

\* SpatialGrid_insert(&grid, &bodies[b]) for the next body not yet inserted
EntryInsert ==
    /\ fault = "none"
    /\ Len(inserted) < MaxEntryBodies
    /\ \E failK \in AllocFail :
          \E b \in {Len(inserted) + 1} :
          \E r \in {SpatialGrid_insert(sgrid, b, bodies[b].position, failK)} :
             /\ sgrid' = r.grid
             /\ fault' = r.fault
             /\ last' = Call("SpatialGrid_insert", bodies, b, r.ret, <<>>)
             /\ inserted' = Append(inserted,
                                   [body |-> b, position |-> bodies[b].position,
                                    at |-> r.at, cell |-> r.entry, ret |-> r.ret,
                                    failed |-> r.failed])
    /\ qres' = <<>>
    /\ steps' = steps + 1
    /\ UNCHANGED <<bodies, gravity, joint, grid, mem>>

\* result = SpatialGrid_queryNearby(&grid, &bodies[b]).  A query leaves the
\* grid as it is, so a query that follows a query returns what the first
\* would have: the run makes one query between two insertions
EntryQuery ==
    /\ fault = "none"
    /\ last.op # "SpatialGrid_queryNearby"
    /\ \E b \in DOMAIN bodies :
          \E c \in {cellCoords(sgrid, bodies[b].position)} :
          \E refs \in {NearbyRefs(sgrid, c.x, c.y, c.z, 0, b)} :
          \E failK \in AllocFail :
          \E r \in {AppendAll(QueryResult_init(failK), refs, failK)} :
             /\ qres' = r
             /\ fault' = r.fault
             /\ last' = Call("SpatialGrid_queryNearby", bodies, b, 0, <<>>)
    /\ UNCHANGED <<bodies, gravity, joint, grid, mem, sgrid, inserted, steps>>

NextEntries == EntryInsert \/ EntryQuery

SpecEntries == InitEntries /\ [][NextEntries]_vars

(* ------------------------- the joint solver alone ----------------------- *)

\* number of Joint_solve calls in a run
MaxSolves == 2

JointMasses == {0, F(1, 1), F(2, 1), F(3, 1), F(0 - 1, 1)}
JointPosB == {V(2, 0, 0), V(0, 0, 0), V(0, 3, 4), V(0 - 1, 0, 0)}
JointAnchors == {Zero3, V(1, 0, 0)}
JointDistances == {0, F(1, 1), F(1, 2)}

InitJoint ==
    /\ \E mA \in JointMasses, mB \in JointMasses, pB \in JointPosB,
          vA \in {Zero3, V(1, 0, 0)}, vB \in {Zero3, V(0, 0 - 1, 0)} :
          bodies = <<RigidBody(Zero3, vA, mA, Zero3), RigidBody(pB, vB, mB, Zero3)>>
    /\ \E rA \in JointAnchors, rB \in JointAnchors, d \in JointDistances :
          joint = Joint(1, 2, rA, rB, d)
    /\ gravity = Zero3
    /\ NoGrid
    /\ NoEntries
    /\ fault = "none"
    /\ last = NoCall
    /\ steps = 0

\* Joint_solve(&joint)
JointSolve ==
    /\ fault = "none"
    /\ steps < MaxSolves
    /\ bodies' = Joint_solve(bodies, joint)
    /\ last' = Call("Joint_solve", bodies, 0, 0, <<>>)
    /\ steps' = steps + 1
    /\ UNCHANGED <<gravity, joint, grid, mem, sgrid, qres, fault, inserted>>

NextJoint == JointSolve

SpecJoint == InitJoint /\ [][NextJoint]_vars

(* ------------------- integration of one body alone --------------------- *)

\* number of integration calls in a run
MaxTurns == 2

\* the smallest positive number, numbers of ordinary size, and a number whose
\* square is beyond the largest
TurnRates == {0, 1, Scale, 0 - Scale, 20 * Scale}
TurnDt == {0, 1, F(16, 1000), Scale, 0 - Scale}

\* one body at rest orientation with an angular and a linear velocity
InitTurn ==
    /\ \E ax \in TurnRates, ay \in TurnRates, az \in {0, Scale}, v \in {V(1, 2, 3), Zero3} :
          bodies = <<RigidBody(Zero3, v, Scale, pge_vec3_new(ax, ay, az))>>
    /\ gravity = Zero3
    /\ joint = NoJoint
    /\ NoGrid
    /\ NoEntries
    /\ fault = "none"
    /\ last = NoCall
    /\ steps = 0

\* body.rot = pge_quat_integrate(body.rot, body.avel, dt)
QuatIntegrate ==
    /\ fault = "none"
    /\ steps < MaxTurns
    /\ \E dt \in TurnDt :
          /\ bodies' = [bodies EXCEPT ![1].rot =
                           pge_quat_integrate(bodies[1].rot, bodies[1].avel, dt)]
          /\ last' = Call("pge_quat_integrate", bodies, dt, 0, <<>>)
    /\ steps' = steps + 1
    /\ UNCHANGED <<gravity, joint, grid, mem, sgrid, qres, fault, inserted>>

\* RigidBody_integrate(&body, dt)
BodyIntegrate ==
    /\ fault = "none"
    /\ steps < MaxTurns
    /\ \E dt \in TurnDt :
          /\ bodies' = [bodies EXCEPT ![1] = RigidBody_integrate(bodies[1], dt)]
          /\ last' = Call("RigidBody_integrate", bodies, dt, 0, <<>>)
    /\ steps' = steps + 1
    /\ UNCHANGED <<gravity, joint, grid, mem, sgrid, qres, fault, inserted>>

NextTurn == QuatIntegrate \/ BodyIntegrate

SpecTurn == InitTurn /\ [][NextTurn]_vars

(* ------------------------------- claims --------------------------------- *)

\* equal up to the rounding the operations accumulate: the same special
\* value, or finite values no more than 1/64 apart
ApproxEq(a, b) ==
    \/ a = b
    \/ /\ IsFinite(a) /\ IsFinite(b)
       /\ 64 * Abs(a - b) <= Scale

ApproxEq3(u, v) == ApproxEq(u.x, v.x) /\ ApproxEq(u.y, v.y) /\ ApproxEq(u.z, v.z)

\* componentwise v / s
Vec3_over(v, s) == [x |-> FDiv(v.x, s), y |-> FDiv(v.y, s), z |-> FDiv(v.z, s)]

\* the separation of the anchor points of joint j on the bodies bs
Separation(bs, j) ==
    Vec3_sub(Vec3_add(bs[j.bodyB].position, j.anchorB),
             Vec3_add(bs[j.bodyA].position, j.anchorA))

\* the impulse the contract names: n * (-c / invMass), n the unit normal
ContractImpulse(bs, j) ==
    LET diff == Separation(bs, j)
        len == Vec3_length(diff)
        n == Vec3_over(diff, len)
        c == FSub(len, j.distance)
        invMass == FAdd(FDiv(Scale, bs[j.bodyA].mass), FDiv(Scale, bs[j.bodyB].mass))
    IN  Vec3_scale(n, FDiv(FNeg(c), invMass))

NonzeroMasses(bs, j) == bs[j.bodyA].mass # 0 /\ bs[j.bodyB].mass # 0

\* the tested configuration: unit masses at rest, 2 apart along x, rest distance 1
TestedJoint(bs, j) ==
    /\ bs[1].position = Zero3 /\ bs[2].position = V(2, 0, 0)
    /\ bs[1].velocity = Zero3 /\ bs[2].velocity = Zero3
    /\ bs[1].mass = Scale /\ bs[2].mass = Scale
    /\ j.anchorA = Zero3 /\ j.anchorB = Zero3 /\ j.distance = Scale

\* C1: after Joint_solve on bodies of nonzero mass whose anchor points are a
\* nonzero distance len apart, vA' = vA - (n * (-c / invMass)) / mA and
\* vB' = vB + (n * (-c / invMass)) / mB (up to rounding), and the tested
\* configuration ends with exactly (0.5,0,0) and (-0.5,0,0).
C1_JointSolveImpulse ==
    last.op = "Joint_solve" =>
        LET pre == last.pre
            len == Vec3_length(Separation(pre, joint))
            imp == ContractImpulse(pre, joint)
            A == joint.bodyA
            B == joint.bodyB
        IN  /\ (NonzeroMasses(pre, joint) /\ IsFinite(len) /\ len # 0) =>
                /\ ApproxEq3(bodies[A].velocity,
                             Vec3_sub(pre[A].velocity, Vec3_over(imp, pre[A].mass)))
                /\ ApproxEq3(bodies[B].velocity,
                             Vec3_add(pre[B].velocity, Vec3_over(imp, pre[B].mass)))
            /\ TestedJoint(pre, joint) =>
                /\ bodies[A].velocity = pge_vec3_new(F(1, 2), 0, 0)
                /\ bodies[B].velocity = pge_vec3_new(F(0 - 1, 2), 0, 0)

\* C1 witness: the tested configuration has been solved once
C1_Witness ==
    /\ last.op = "Joint_solve"
    /\ TestedJoint(last.pre, joint)
    /\ bodies[1].velocity = pge_vec3_new(F(1, 2), 0, 0)

\* C6: Joint_solve on a joint with a zero-mass body divides by no zero and
\* leaves the zero-mass body's velocity unchanged, and so does each pair with
\* exactly one zero-mass body in scene_detect_collisions (the claim as stated).
C6_ZeroMassImmovable ==
    /\ last.op = "Joint_solve" =>
          \A b \in {joint.bodyA, joint.bodyB} :
              last.pre[b].mass = 0 =>
                  /\ 0 \notin Joint_divisors(last.pre, joint)
                  /\ bodies[b].velocity = last.pre[b].velocity
    /\ last.op = "scene_detect_collisions" =>
          \A k \in 1..Len(last.log) :
              LET e == last.log[k]
              IN  (e.pre[e.a].mass = 0) # (e.pre[e.b].mass = 0) =>
                      \A b \in {e.a, e.b} :
                          e.pre[b].mass = 0 => e.post[b].velocity = e.pre[b].velocity

\* C10: when the anchor points coincide, Joint_solve's impulse is the zero
\* vector and bodies of nonzero mass keep their velocities (the claim as stated).
C10_CoincidentAnchors ==
    (/\ last.op = "Joint_solve"
     /\ Vec3_length(Separation(last.pre, joint)) = 0
     /\ NonzeroMasses(last.pre, joint)) =>
        /\ Joint_impulse(last.pre, joint) = Zero3
        /\ bodies[joint.bodyA].velocity = last.pre[joint.bodyA].velocity
        /\ bodies[joint.bodyB].velocity = last.pre[joint.bodyB].velocity

\* C2: a scene_update step gives every body velocity + gravity*dt, then
\* position + (new velocity)*dt, then the integrated orientation, each from
\* that body's own state, and changes nothing else of the bodies, the
\* gravity or the grid; the tested body (velocity (1,0,0), angular velocity
\* (0,1,0), dt = 1, gravity (0,-1,0)) ends at velocity and position (1,-1,0)
\* with an orientation that is not the identity.
C2_SceneUpdate ==
    [][last'.op = "scene_update" =>
        LET dt == last'.arg
        IN  /\ DOMAIN bodies' = DOMAIN bodies
            /\ \A i \in DOMAIN bodies :
                  LET v1 == Vec3_add(bodies[i].velocity, Vec3_scale(gravity, dt))
                  IN  /\ bodies'[i].velocity = v1
                      /\ bodies'[i].position =
                            Vec3_add(bodies[i].position, Vec3_scale(v1, dt))
                      /\ bodies'[i].rot =
                            pge_quat_integrate(bodies[i].rot, bodies[i].avel, dt)
                      /\ bodies'[i].mass = bodies[i].mass
                      /\ bodies'[i].avel = bodies[i].avel
                      /\ bodies'[i].restitution = bodies[i].restitution
                      /\ bodies'[i].inertia = bodies[i].inertia
                      /\ bodies'[i].shape = bodies[i].shape
            /\ gravity' = gravity /\ grid' = grid /\ mem' = mem /\ joint' = joint
            /\ fault' = fault
            /\ (/\ steps = 0 /\ dt = Scale /\ bodies[1].velocity = V(1, 0, 0)) =>
                  /\ bodies'[1].velocity = V(1, 0 - 1, 0)
                  /\ bodies'[1].position = V(1, 0 - 1, 0)
                  /\ bodies'[1].rot # Quaternion_identity
    ]_vars

\* C2 witness: a scene whose grid holds a cell has been updated, and a body
\* of mass 0 has moved by its velocity and the gravity
C2_Witness ==
    /\ last.op = "scene_update"
    /\ Len(grid.cells) > 0
    /\ \E i \in DOMAIN bodies :
          /\ bodies[i].mass = 0
          /\ last.pre[i].velocity = V(1, 0, 0)
          /\ bodies[i].velocity = V(1, 0 - 1, 0)
          /\ bodies[i].position = V(1, 0 - 1, 0)

\* the entries of the insertion record
Insertions == {inserted[k] : k \in 1..Len(inserted)}

\* C4: bodies appended to the same cell's bucket had the same cell
\* coordinates (x, y, z) when they were inserted (the claim as stated).
C4_BucketHoldsOneCell ==
    \A e1 \in Insertions, e2 \in Insertions : e1.cell = e2.cell => e1.at = e2.at

\* the entries of the latest call's record of pairs
PairsMet == {last.log[k] : k \in 1..Len(last.log)}

\* C5: a completed scene_detect_collisions has met every pair of every cell
\* of the grid that has two or more occupants exactly once (the claim as stated).
C5_EveryPairMetOnce ==
    (last.op = "scene_detect_collisions" /\ fault = "none") =>
        \A c \in 1..Len(grid.cells) :
            \A i \in 0..(grid.cells[c].count - 1), j \in 0..(grid.cells[c].count - 1) :
                i < j =>
                    Cardinality({k \in 1..Len(last.log) :
                                    /\ last.log[k].cell = c
                                    /\ last.log[k].i = i
                                    /\ last.log[k].j = j}) = 1

\* C7: a pair met by scene_detect_collisions whose bodies both have mass 0
\* leaves every field of every body as it was.
C7_StaticPairSkipped ==
    last.op = "scene_detect_collisions" =>
        \A e \in PairsMet :
            (e.pre[e.a].mass = 0 /\ e.pre[e.b].mass = 0) => e.post = e.pre

\* C7 witness: a pair of two distinct zero-mass bodies at different
\* positions was met, after a pair that changed a velocity
C7_Witness ==
    /\ last.op = "scene_detect_collisions"
    /\ \E e \in PairsMet :
          /\ e.a # e.b
          /\ e.pre[e.a].mass = 0 /\ e.pre[e.b].mass = 0
          /\ e.pre[e.a].position # e.pre[e.b].position

\* C8: every insertion put the body in the cell whose coordinates are the
\* floors of the position's coordinates (the claim as stated).
C8_CellIsFloor ==
    \A e \in Insertions :
        /\ e.at.x = FFloor(e.position.x)
        /\ e.at.y = FFloor(e.position.y)
        /\ e.at.z = FFloor(e.position.z)

\* the bodies inserted so far all went, successfully, into one cell
SameCellInserted ==
    /\ inserted # <<>>
    /\ \A e \in Insertions : e.ret = 0 /\ e.at = inserted[1].at

\* the result holds each inserted body other than b once, and nothing else
HoldsTheOthers(result, b) ==
    /\ result.count = Len(inserted) - 1
    /\ Len(result.bodies) = result.count
    /\ \A j \in 1..Len(result.bodies) : result.bodies[j] # b
    /\ \A e \in Insertions :
          e.body # b => Cardinality({j \in 1..Len(result.bodies) :
                                        result.bodies[j] = e.body}) = 1

\* C3: after N bodies were inserted into one cell of an empty grid, a
\* SpatialGrid_queryNearby for one of them that returns holds exactly the
\* other N - 1, each once (the claim as stated).
C3_QueryReturnsOthers ==
    (/\ last.op = "SpatialGrid_queryNearby" /\ fault = "none"
     /\ SameCellInserted
     /\ last.arg <= Len(inserted))
    => HoldsTheOthers(qres, last.arg)

\* C3 holds of the queries in which no append found the allocator out of
\* memory
C3_WhenAppendsSucceed ==
    (/\ last.op = "SpatialGrid_queryNearby" /\ fault = "none"
     /\ SameCellInserted
     /\ last.arg <= Len(inserted)
     /\ qres.dropped = 0)
    => HoldsTheOthers(qres, last.arg)

\* C9: an insertion in which an allocation failed returns a failure, and a
\* SpatialGrid_queryNearby that returns has appended every body it met: the
\* QueryResult it returns has no field that could say otherwise (the claim
\* as stated).
C9_AllocationFailureReported ==
    /\ (last.op = "SpatialGrid_insert" /\ inserted[Len(inserted)].failed)
          => last.ret # 0
    /\ (last.op = "SpatialGrid_queryNearby" /\ fault = "none")
          => qres.dropped = 0

\* the joint that a contact between the bodies a and b would be: both
\* anchors zero, rest distance 1
UnitJoint(a, b) == Joint(a, b, Zero3, Zero3, Scale)

\* C11: every pair that scene_detect_collisions met and did not skip as a
\* pair of static bodies was left as Joint_solve leaves the unit joint of the
\* pair (the claim as stated).
C11_ContactIsUnitJoint ==
    last.op = "scene_detect_collisions" =>
        \A e \in PairsMet :
            ~Contact_static(e.pre, e.a, e.b) =>
                e.post = Joint_solve(e.pre, UnitJoint(e.a, e.b))

\* C11 holds of the pairs whose bodies are apart or both have a positive mass
C11_WhenApartOrMassive ==
    last.op = "scene_detect_collisions" =>
        \A e \in PairsMet :
            (/\ ~Contact_static(e.pre, e.a, e.b)
             /\ \/ e.pre[e.a].position # e.pre[e.b].position
                \/ e.pre[e.a].mass > 0 /\ e.pre[e.b].mass > 0)
            => e.post = Joint_solve(e.pre, UnitJoint(e.a, e.b))

\* some component of the vector is not zero
Nonzero3(v) == ~FEq(v.x, 0) \/ ~FEq(v.y, 0) \/ ~FEq(v.z, 0)

\* the quaternions differ in some component
QuatDiffers(p, q) == ~FEq(p.w, q.w) \/ ~FEq(p.x, q.x) \/ ~FEq(p.y, q.y) \/ ~FEq(p.z, q.z)

\* the quaternion that pge_quat_integrate normalises
QuatStep(q, av, dt) ==
    LET omega == [w |-> 0, x |-> av.x, y |-> av.y, z |-> av.z]
        qdot == Quaternion_scale(Quaternion_mul(omega, q), Scale \div 2)
    IN  [w |-> FAdd(q.w, FMul(qdot.w, dt)), x |-> FAdd(q.x, FMul(qdot.x, dt)),
         y |-> FAdd(q.y, FMul(qdot.y, dt)), z |-> FAdd(q.z, FMul(qdot.z, dt))]

\* the call integrated the identity with a nonzero angular velocity over a
\* nonzero dt
TurnedFromIdentity ==
    /\ last.op = "pge_quat_integrate"
    /\ last.pre[1].rot = Quaternion_identity
    /\ Nonzero3(last.pre[1].avel)
    /\ ~FEq(last.arg, 0)

\* C12: pge_quat_integrate of the identity with a nonzero angular velocity
\* and a nonzero dt returns a quaternion that differs from the identity and
\* has norm 1 (up to the rounding of the number format), and the quaternion
\* it normalises does not have norm zero (the claim as stated).
C12_TurnIsUnitAndMoves ==
    TurnedFromIdentity =>
        /\ QuatDiffers(bodies[1].rot, Quaternion_identity)
        /\ ApproxEq(Quaternion_mag(bodies[1].rot), Scale)
        /\ ~FEq(Quaternion_mag(QuatStep(last.pre[1].rot, last.pre[1].avel, last.arg)), 0)

\* C12 holds where the products of rate and dt are of ordinary size: none is
\* rounded to zero and none has a square beyond the largest number
C12_WhenOrdinary ==
    (/\ TurnedFromIdentity
     /\ \A c \in {last.pre[1].avel.x, last.pre[1].avel.y, last.pre[1].avel.z} :
           c = 0 \/ (Abs(c) = Scale /\ Abs(last.arg) >= F(16, 1000)))
    => /\ QuatDiffers(bodies[1].rot, Quaternion_identity)
       /\ ApproxEq(Quaternion_mag(bodies[1].rot), Scale)
       /\ ~FEq(Quaternion_mag(QuatStep(last.pre[1].rot, last.pre[1].avel, last.arg)), 0)

\* C13: RigidBody_integrate(body, dt) leaves position + velocity * dt in
\* position, component by component, and every other field of the body as
\* it was.
C13_IntegrateMovesOnly ==
    last.op = "RigidBody_integrate" =>
        LET pre == last.pre[1]
            post == bodies[1]
            dt == last.arg
        IN  /\ post.position.x = FAdd(pre.position.x, FMul(pre.velocity.x, dt))
            /\ post.position.y = FAdd(pre.position.y, FMul(pre.velocity.y, dt))
            /\ post.position.z = FAdd(pre.position.z, FMul(pre.velocity.z, dt))
            /\ post.velocity = pre.velocity
            /\ post.mass = pre.mass
            /\ post.restitution = pre.restitution
            /\ post.rot = pre.rot
            /\ post.avel = pre.avel
            /\ post.inertia = pre.inertia
            /\ post.shape = pre.shape

\* C13 witness: the tested call, velocity (1, 2, 3) over dt = 1 from the
\* origin, on a body that is turning
C13_Witness ==
    /\ last.op = "RigidBody_integrate"
    /\ last.arg = Scale
    /\ last.pre[1].position = Zero3
    /\ last.pre[1].velocity = V(1, 2, 3)
    /\ last.pre[1].avel = V(0, 1, 0)
    /\ bodies[1].position = V(1, 2, 3)

\* the bodies whose insertion went to the cell c, in the order inserted
InsertedInto(c) == SelectSeq(inserted, LAMBDA e : e.cell = c)

\* C14: while the process runs, every bucket has 0 <= count <= capacity, a
\* capacity of 4 doubled some number of times, and holds at the indices
\* 0 .. count - 1 exactly the references inserted into its cell, in the order
\* inserted: growth keeps the earlier references where they were and a write
\* to another cell's bucket does not change them (the claim as stated).
C14_BucketKeepsInsertions ==
    fault = "none" =>
        \A c \in 1..Len(grid.cells) :
            LET cell == grid.cells[c]
                into == InsertedInto(c)
            IN  /\ 0 <= cell.count /\ cell.count <= cell.capacity
                /\ cell.capacity \in {4, 8, 16}
                /\ cell.capacity < 2 * cell.count + 4
                /\ cell.count = Len(into)
                /\ \A i \in 1..Len(into) : Occupant(mem, cell, i - 1) = into[i].body

\* C14, for a grid of one cell: the bucket holds the references inserted.
\* It holds while no bucket has grown, and fails at the fifth insertion into
\* the cell
C14_OneCellKeepsInsertions ==
    (fault = "none" /\ Len(grid.cells) = 1) =>
        \A i \in 1..Len(inserted) : Occupant(mem, grid.cells[1], i - 1) = inserted[i].body

\* the vectors are equal, as floats compare
Same3(u, v) == FEq(u.x, v.x) /\ FEq(u.y, v.y) /\ FEq(u.z, v.z)

\* the second of two Joint_solve calls in a row: the velocity of each body
\* of the joint has changed, over the two calls, by twice the change of the
\* first, and nothing but velocities was written
TwiceTheChange ==
    /\ \A i \in {joint.bodyA, joint.bodyB} :
          Same3(Vec3_sub(bodies'[i].velocity, last.pre[i].velocity),
                Vec3_scale(Vec3_sub(bodies[i].velocity, last.pre[i].velocity), 2 * Scale))
    /\ \A i \in DOMAIN bodies :
          bodies'[i] = [bodies[i] EXCEPT !.velocity = bodies'[i].velocity]
    /\ joint' = joint

\* C15: a Joint_solve that follows a Joint_solve brings the change of each
\* velocity to exactly twice the change of the first call, and writes
\* nothing but the two velocities (the claim as stated).
C15_RepeatAddsSameChange ==
    [][(last.op = "Joint_solve" /\ last'.op = "Joint_solve") => TwiceTheChange]_vars

\* C15 holds of the joints between bodies of positive mass, in the model's
\* number format, whose additions are exact
C15_WhenMassive ==
    [][(/\ last.op = "Joint_solve" /\ last'.op = "Joint_solve"
        /\ bodies[joint.bodyA].mass > 0 /\ bodies[joint.bodyB].mass > 0)
       => TwiceTheChange]_vars

\* mA * vA + mB * vB of the bodies a and b in the store bs
Momentum(bs, a, b) ==
    Vec3_add(Vec3_scale(bs[a].velocity, bs[a].mass), Vec3_scale(bs[b].velocity, bs[b].mass))

\* both masses are finite and not zero
FiniteNonzeroMasses(bs, a, b) ==
    /\ IsFinite(bs[a].mass) /\ bs[a].mass # 0
    /\ IsFinite(bs[b].mass) /\ bs[b].mass # 0

\* C16: Joint_solve, and each pair resolution of scene_detect_collisions, on
\* bodies of finite nonzero mass leaves mA * vA + mB * vB as it was, up to
\* rounding (the claim as stated).
C16_MomentumConserved ==
    /\ (last.op = "Joint_solve"
        /\ FiniteNonzeroMasses(last.pre, joint.bodyA, joint.bodyB))
       => ApproxEq3(Momentum(bodies, joint.bodyA, joint.bodyB),
                    Momentum(last.pre, joint.bodyA, joint.bodyB))
    /\ last.op = "scene_detect_collisions"
       => \A e \in PairsMet :
             FiniteNonzeroMasses(e.pre, e.a, e.b)
             => ApproxEq3(Momentum(e.post, e.a, e.b), Momentum(e.pre, e.a, e.b))

\* C16 holds of the pairs whose masses do not add up to zero
C16_WhenMassesDoNotCancel ==
    /\ (last.op = "Joint_solve"
        /\ FiniteNonzeroMasses(last.pre, joint.bodyA, joint.bodyB)
        /\ last.pre[joint.bodyA].mass + last.pre[joint.bodyB].mass # 0)
       => ApproxEq3(Momentum(bodies, joint.bodyA, joint.bodyB),
                    Momentum(last.pre, joint.bodyA, joint.bodyB))
    /\ last.op = "scene_detect_collisions"
       => \A e \in PairsMet :
             (FiniteNonzeroMasses(e.pre, e.a, e.b)
              /\ e.pre[e.a].mass + e.pre[e.b].mass # 0)
             => ApproxEq3(Momentum(e.post, e.a, e.b), Momentum(e.pre, e.a, e.b))

\* C17: scene_detect_collisions does not end by reading through a table
\* slot that has no cell, whatever insertions were made before it, none
\* included (the claim as stated).
C17_DetectSkipsEmptySlots ==
    last.op = "scene_detect_collisions" => fault # "segv"

\* the places (cell, index) of the grid's buckets that hold the body b
PlacesOf(b) ==
    UNION {{<<c, i>> : i \in {k \in 0..(grid.cells[c].count - 1) :
                                Occupant(mem, grid.cells[c], k) = b}} :
           c \in 1..Len(grid.cells)}

\* C18: while the process runs, each body is held at no more than one place
\* of one bucket, and a scene_detect_collisions has met no pair of a body
\* with itself and no pair of bodies twice (the claim as stated).
C18_BodyHeldOnce ==
    /\ fault = "none" => \A b \in DOMAIN bodies : Cardinality(PlacesOf(b)) <= 1
    /\ last.op = "scene_detect_collisions"
       => /\ \A e \in PairsMet : e.a # e.b
          /\ \A k1 \in 1..Len(last.log), k2 \in 1..Len(last.log) :
                {last.log[k1].a, last.log[k1].b} = {last.log[k2].a, last.log[k2].b}
                => k1 = k2

====
